---- MODULE Spec2Model ----
(***************************************************************************)
(* Dragon ALM: the Requirement / Design persistence layer.                 *)
(*                                                                         *)
(* The state is the content of the SQLite database file shared by          *)
(* SQLiteRequirementRepository and SQLiteDesignRepository (two entity      *)
(* tables, two join tables, the AUTOINCREMENT sequence), the wall clock    *)
(* read by datetime.now(), the listeners registered with the Requirement   *)
(* controller, and the outcome of the last call.                           *)
(*                                                                         *)
(* Text (ids, titles, ...) is a tuple of one-character strings, so that    *)
(* prefix tests, lengths, lexicographic order, parsing and padding are     *)
(* computed, not assumed.  Python's None / SQL NULL is the value None.     *)
(***************************************************************************)
EXTENDS Integers, Sequences, FiniteSets, TLC

VARIABLES
    requirements,          \* table requirements: id -> row
    requirement_designs,   \* table requirement_designs: set of <<requirement_id, design_id>>
    designs,               \* table designs: id -> row
    design_requirements,   \* table design_requirements: set of <<design_id, requirement_id>>
    sqlite_sequence,       \* AUTOINCREMENT high-water mark of table designs
    clock,                 \* the wall clock datetime.now() reads
    _observers,            \* RequirementController._observers: the listeners, in order
    inflight,              \* the Manager calls in progress: client -> its local variables
    last                   \* the last call: operation, arguments, outcome

tables == <<requirements, requirement_designs, designs, design_requirements, sqlite_sequence>>
vars == <<requirements, requirement_designs, designs, design_requirements, sqlite_sequence,
          clock, _observers, inflight, last>>

---------------------------------------------------------------------------
(* Bounds of the model *)

MaxReqs == 3        \* requirement rows stored at once
MaxDesigns == 2     \* design rows ever created
MaxClock == 2       \* clock readings 0..MaxClock
MaxObservers == 2   \* listeners registered with the Requirement controller

---------------------------------------------------------------------------
(* Text *)

None == <<"<None>">>

\* None where an entity is expected (read of an absent id, no entity returned)
NoEntity == [absent |-> TRUE]

\* the characters of the model, in ascending byte order (SQLite BINARY collation)
Chars == <<" ", "-", "0", "1", "2", "3", "4", "5", "6", "7", "8", "9",
           "A", "B", "E", "L", "Q", "R", "X", "a", "b", "c", "d", "e", "g", "l", "o",
           "q", "r", "v", "x">>

Ord(c) == CHOOSE i \in 1..Len(Chars) : Chars[i] = c

DigitChars == <<"0", "1", "2", "3", "4", "5", "6", "7", "8", "9">>

IsDigit(c) == \E i \in 1..10 : DigitChars[i] = c

DigitVal(c) == (CHOOSE i \in 1..10 : DigitChars[i] = c) - 1

\* str.upper() on the letters of the model (SQLite LIKE folds ASCII case)
Upper(c) ==
    CASE c = "a" -> "A" [] c = "b" -> "B" [] c = "e" -> "E" [] c = "l" -> "L"
      [] c = "q" -> "Q" [] c = "r" -> "R" [] c = "x" -> "X"
      [] OTHER -> c

\* str.lower() on the letters of the model
UpperLetters ==
    <<"A", "B", "C", "D", "E", "F", "G", "H", "I", "J", "K", "L", "M",
      "N", "O", "P", "Q", "R", "S", "T", "U", "V", "W", "X", "Y", "Z">>

LowerLetters ==
    <<"a", "b", "c", "d", "e", "f", "g", "h", "i", "j", "k", "l", "m",
      "n", "o", "p", "q", "r", "s", "t", "u", "v", "w", "x", "y", "z">>

Lower(c) ==
    IF \E i \in 1..Len(UpperLetters) : UpperLetters[i] = c
    THEN LowerLetters[CHOOSE i \in 1..Len(UpperLetters) : UpperLetters[i] = c]
    ELSE c

lower(s) == [i \in 1..Len(s) |-> Lower(s[i])]

\* sub in s
Contains(s, sub) ==
    \E i \in 0..(Len(s) - Len(sub)) : SubSeq(s, i + 1, i + Len(sub)) = sub

Range(s) == { s[i] : i \in 1..Len(s) }

HasDuplicates(s) == \E i, j \in 1..Len(s) : i # j /\ s[i] = s[j]

Min(a, b) == IF a < b THEN a ELSE b

\* a < b bytewise: ORDER BY id on a VARCHAR column
StrLess(a, b) ==
    \E i \in 1..(Min(Len(a), Len(b)) + 1) :
        /\ \A j \in 1..(i - 1) : a[j] = b[j]
        /\ \/ i > Len(a) /\ i <= Len(b)
           \/ i <= Len(a) /\ i <= Len(b) /\ Ord(a[i]) < Ord(b[i])

\* str.startswith
StartsWith(s, p) == Len(s) >= Len(p) /\ \A i \in 1..Len(p) : s[i] = p[i]

\* len(s.strip()) == 0
IsBlank(s) == \A i \in 1..Len(s) : s[i] = " "

REQ == <<"R", "E", "Q", "-">>

\* id LIKE 'REQ-%' (case-insensitive on ASCII letters)
LikeREQ(s) == Len(s) >= 4 /\ \A i \in 1..4 : Upper(s[i]) = REQ[i]

\* s.split('-')[1]: the text between the first '-' and the next one (or the end);
\* None when s holds no '-' (IndexError)
SplitSecond(s) ==
    IF \A i \in 1..Len(s) : s[i] # "-" THEN None
    ELSE LET first == CHOOSE i \in 1..Len(s) : s[i] = "-" /\ \A j \in 1..(i - 1) : s[j] # "-"
             rest == SubSeq(s, first + 1, Len(s))
         IN  IF \A i \in 1..Len(rest) : rest[i] # "-" THEN rest
             ELSE LET nxt == CHOOSE i \in 1..Len(rest) :
                                rest[i] = "-" /\ \A j \in 1..(i - 1) : rest[j] # "-"
                  IN  SubSeq(rest, 1, nxt - 1)

\* int(s) succeeds (on the characters of the model: a non-empty run of digits)
IsInt(s) == s # None /\ Len(s) > 0 /\ \A i \in 1..Len(s) : IsDigit(s[i])

RECURSIVE ParseInt(_)
ParseInt(s) ==
    IF Len(s) = 0 THEN 0
    ELSE 10 * ParseInt(SubSeq(s, 1, Len(s) - 1)) + DigitVal(s[Len(s)])

RECURSIVE ToDigits(_)
ToDigits(n) ==
    IF n < 10 THEN <<DigitChars[n + 1]>>
    ELSE ToDigits(n \div 10) \o <<DigitChars[(n % 10) + 1]>>

RECURSIVE PadZero(_, _)
PadZero(s, w) == IF Len(s) >= w THEN s ELSE PadZero(<<"0">> \o s, w)

IdPad == 3

\* f"REQ-{number:03d}"
FormatReqId(number) == REQ \o PadZero(ToDigits(number), IdPad)

RECURSIVE SortedInts(_)
SortedInts(S) ==
    IF S = {} THEN <<>>
    ELSE LET m == CHOOSE x \in S : \A y \in S : x <= y
         IN  <<m>> \o SortedInts(S \ {m})

RECURSIVE SortedStrs(_)
SortedStrs(S) ==
    IF S = {} THEN <<>>
    ELSE LET m == CHOOSE x \in S : \A y \in S : x = y \/ StrLess(x, y)
         IN  <<m>> \o SortedStrs(S \ {m})

\* datetime.isoformat() and datetime.fromisoformat(): the stored TEXT of a reading
isoformat(t) == <<"iso", t>>

fromisoformat(s) == s[2]

---------------------------------------------------------------------------
(* models/enums.py *)

RequirementStatus == {"Draft", "Under Review", "Approved", "Implemented", "Obsolete"}

Priority == {"Low", "Medium", "High", "Critical"}

---------------------------------------------------------------------------
(* services/validation_service.py *)

MaxIdLen == 20
MaxTitleLen == 200
MaxCategoryLen == 50

\* a validation that looks at the id only
validate_requirement_id_only(req) ==
    IF req.id = None \/ req.id = <<>> \/ ~StartsWith(req.id, REQ)
    THEN <<"ID must start with 'REQ-'">> ELSE <<>>

\* the error list of validate_requirement, in the order the checks run
validate_requirement(req) ==
    (IF req.id = None \/ req.id = <<>> \/ ~StartsWith(req.id, REQ)
        THEN <<"ID must start with 'REQ-'">> ELSE <<>>)
    \o (IF req.id # None /\ req.id # <<>> /\ Len(req.id) > MaxIdLen
        THEN <<"ID must not exceed 20 characters">> ELSE <<>>)
    \o (IF req.title = None \/ req.title = <<>> \/ IsBlank(req.title)
        THEN <<"Title is required">> ELSE <<>>)
    \o (IF req.title # None /\ req.title # <<>> /\ Len(req.title) > MaxTitleLen
        THEN <<"Title must not exceed 200 characters">> ELSE <<>>)
    \o (IF req.category # None /\ req.category # <<>> /\ Len(req.category) > MaxCategoryLen
        THEN <<"Category must not exceed 50 characters">> ELSE <<>>)
    \o (IF req.status \notin RequirementStatus THEN <<"Invalid status value">> ELSE <<>>)
    \o (IF req.priority \notin Priority THEN <<"Invalid priority value">> ELSE <<>>)

---------------------------------------------------------------------------
(* repositories/sqlite_repository.py: SQLiteRequirementRepository.          *)
(* Every method opens its own connection and runs in one transaction:      *)
(* "with conn" commits on return and rolls back on an exception.  No       *)
(* connection issues PRAGMA foreign_keys = ON, so SQLite does not enforce  *)
(* the FOREIGN KEY clauses of the schema: no ON DELETE CASCADE or SET NULL *)
(* acts, and a join row may name an id with no entity row.                 *)
(***************************************************************************)

ScalarKeys == {"title", "description", "status", "priority", "category", "parent_id",
               "verification_criteria"}

\* the design ids joined to a requirement id, as SELECT design_id ... returns them
design_ids_of(rid) == SortedInts({ l[2] : l \in { x \in requirement_designs : x[1] = rid } })

\* row['x'] or ''
OrEmpty(v) == IF v = None THEN <<>> ELSE v

_row_to_requirement(rid, row, design_ids) ==
    [id |-> rid,
     title |-> row.title,
     description |-> OrEmpty(row.description),
     status |-> row.status,
     priority |-> row.priority,
     category |-> OrEmpty(row.category),
     parent_id |-> row.parent_id,
     verification_criteria |-> OrEmpty(row.verification_criteria),
     design_ids |-> design_ids,
     created_at |-> fromisoformat(row.created_at),
     updated_at |-> fromisoformat(row.updated_at)]

\* the row an INSERT or UPDATE writes for an entity
RowOf(entity, created_at_text) ==
    [title |-> entity.title,
     description |-> entity.description,
     status |-> entity.status,
     priority |-> entity.priority,
     category |-> entity.category,
     parent_id |-> entity.parent_id,
     verification_criteria |-> entity.verification_criteria,
     created_at |-> created_at_text,
     updated_at |-> isoformat(entity.updated_at)]

\* the join rows an executemany inserts for a link list
LinkRows(rid, design_ids) == { <<rid, design_ids[i]>> : i \in 1..Len(design_ids) }

\* SQLiteRequirementRepository.read: the entity, or NoEntity
req_read(rid) ==
    IF rid \notin DOMAIN requirements THEN NoEntity
    ELSE _row_to_requirement(rid, requirements[rid], design_ids_of(rid))

\* a create that replaces the row of an id already stored (INSERT OR REPLACE)
req_create_replace(entity) ==
    LET conflict ==
            \/ entity.title = None
            \/ HasDuplicates(entity.design_ids)
    IN  IF conflict
        THEN [err |-> "DatabaseError",
              requirements |-> requirements,
              requirement_designs |-> requirement_designs]
        ELSE [err |-> "ok",
              requirements |->
                  [r \in DOMAIN requirements \cup {entity.id} |->
                      IF r = entity.id THEN RowOf(entity, isoformat(entity.created_at))
                      ELSE requirements[r]],
              requirement_designs |->
                  requirement_designs \cup LinkRows(entity.id, entity.design_ids)]

\* SQLiteRequirementRepository.create: [err, requirements, requirement_designs]
req_create(entity) ==
    LET conflict ==
            \/ entity.id \in DOMAIN requirements            \* PRIMARY KEY (id)
            \/ entity.title = None                           \* title NOT NULL
            \/ HasDuplicates(entity.design_ids)              \* PRIMARY KEY (requirement_id, design_id)
            \/ LinkRows(entity.id, entity.design_ids) \cap requirement_designs # {}
    IN  IF conflict
        THEN [err |-> "DatabaseError",
              requirements |-> requirements,
              requirement_designs |-> requirement_designs]
        ELSE [err |-> "ok",
              requirements |->
                  [r \in DOMAIN requirements \cup {entity.id} |->
                      IF r = entity.id THEN RowOf(entity, isoformat(entity.created_at))
                      ELSE requirements[r]],
              requirement_designs |->
                  requirement_designs \cup LinkRows(entity.id, entity.design_ids)]

\* an update that writes the stamp to created_at as well as to updated_at
req_update_restamp(entity, now) ==
    LET stamped == [entity EXCEPT !.updated_at = now]
        exists == entity.id \in DOMAIN requirements
        old == { x \in requirement_designs : x[1] = entity.id }
        conflict == entity.title = None \/ HasDuplicates(entity.design_ids)
    IN  IF conflict
        THEN [err |-> "DatabaseError", ret |-> FALSE,
              requirements |-> requirements,
              requirement_designs |-> requirement_designs]
        ELSE [err |-> "ok",
              ret |-> IF Len(entity.design_ids) > 0 THEN TRUE ELSE old # {},
              requirements |->
                  IF exists
                  THEN [requirements EXCEPT ![entity.id] = RowOf(stamped, isoformat(now))]
                  ELSE requirements,
              requirement_designs |->
                  (requirement_designs \ old) \cup LinkRows(entity.id, entity.design_ids)]

\* an update that adds the join rows of the entity's list to those stored, deleting none
req_update_patch(entity, now) ==
    LET stamped == [entity EXCEPT !.updated_at = now]
        exists == entity.id \in DOMAIN requirements
        conflict == entity.title = None \/ HasDuplicates(entity.design_ids)
    IN  IF conflict
        THEN [err |-> "DatabaseError", ret |-> FALSE,
              requirements |-> requirements,
              requirement_designs |-> requirement_designs]
        ELSE [err |-> "ok",
              ret |-> exists,
              requirements |->
                  IF exists
                  THEN [requirements EXCEPT
                           ![entity.id] = RowOf(stamped, requirements[entity.id].created_at)]
                  ELSE requirements,
              requirement_designs |->
                  requirement_designs \cup LinkRows(entity.id, entity.design_ids)]

\* an update whose statements are each committed as they run: when an insert of a join
\* row fails, the rewritten row, the delete of the old join rows and the join rows
\* inserted so far stay
req_update_autocommit(entity, now) ==
    LET stamped == [entity EXCEPT !.updated_at = now]
        exists == entity.id \in DOMAIN requirements
        old == { x \in requirement_designs : x[1] = entity.id }
        rewritten == IF exists
                     THEN [requirements EXCEPT
                              ![entity.id] = RowOf(stamped, requirements[entity.id].created_at)]
                     ELSE requirements
    IN  IF entity.title = None
        THEN [err |-> "DatabaseError", ret |-> FALSE,
              requirements |-> requirements,
              requirement_designs |-> requirement_designs]
        ELSE IF HasDuplicates(entity.design_ids)
        THEN [err |-> "DatabaseError", ret |-> FALSE,
              requirements |-> rewritten,
              requirement_designs |->
                  (requirement_designs \ old) \cup LinkRows(entity.id, entity.design_ids)]
        ELSE [err |-> "ok",
              ret |-> IF Len(entity.design_ids) > 0 THEN TRUE ELSE old # {},
              requirements |-> rewritten,
              requirement_designs |->
                  (requirement_designs \ old) \cup LinkRows(entity.id, entity.design_ids)]

\* SQLiteRequirementRepository.update: [err, ret, requirements, requirement_designs]
\* now is the reading of datetime.now() that line 144 stamps on the entity
req_update(entity, now) ==
    LET stamped == [entity EXCEPT !.updated_at = now]
        exists == entity.id \in DOMAIN requirements
        old == { x \in requirement_designs : x[1] = entity.id }
        conflict == entity.title = None \/ HasDuplicates(entity.design_ids)
    IN  IF conflict
        THEN [err |-> "DatabaseError", ret |-> FALSE,
              requirements |-> requirements,
              requirement_designs |-> requirement_designs]
        ELSE [err |-> "ok",
              \* cursor.rowcount is that of the last statement run on the cursor
              ret |-> IF Len(entity.design_ids) > 0 THEN TRUE ELSE old # {},
              requirements |->
                  IF exists
                  THEN [requirements EXCEPT
                           ![entity.id] = RowOf(stamped, requirements[entity.id].created_at)]
                  ELSE requirements,
              requirement_designs |->
                  (requirement_designs \ old) \cup LinkRows(entity.id, entity.design_ids)]

\* a delete that reports success whether or not a row was removed
req_delete_true(rid) ==
    [err |-> "ok",
     ret |-> TRUE,
     requirements |-> [r \in DOMAIN requirements \ {rid} |-> requirements[r]]]

\* SQLiteRequirementRepository.delete: [err, ret, requirements]
req_delete(rid) ==
    [err |-> "ok",
     ret |-> rid \in DOMAIN requirements,
     requirements |-> [r \in DOMAIN requirements \ {rid} |-> requirements[r]]]

\* a get_next_id that numbers by the count of rows
get_next_id_count ==
    [err |-> "ok", id |-> FormatReqId(Cardinality(DOMAIN requirements) + 1)]

\* SQLiteRequirementRepository.get_next_id: [err, id]
get_next_id ==
    LET matching == { r \in DOMAIN requirements : LikeREQ(r) }
    IN  IF matching = {} THEN [err |-> "ok", id |-> FormatReqId(1)]
        ELSE LET last_id == CHOOSE r \in matching :
                                \A o \in matching : o = r \/ StrLess(o, r)
                 part == SplitSecond(last_id)
             IN  IF ~IsInt(part) THEN [err |-> "ValueError", id |-> None]
                 ELSE [err |-> "ok", id |-> FormatReqId(ParseInt(part) + 1)]

---------------------------------------------------------------------------
(* repositories/sqlite_design_repository.py: SQLiteDesignRepository.       *)
(* Same transaction discipline; sqlite3 errors are not wrapped here.       *)

\* the requirement ids joined to a design id, as SELECT requirement_id ... returns them
requirement_ids_of(did) == SortedStrs({ l[2] : l \in { x \in design_requirements : x[1] = did } })

DesignLinkRows(did, requirement_ids) ==
    { <<did, requirement_ids[i]>> : i \in 1..Len(requirement_ids) }

\* SQLiteDesignRepository.get: the entity, or NoEntity
design_get(did) ==
    IF did \notin DOMAIN designs THEN NoEntity
    ELSE [id |-> did,
          name |-> designs[did].name,
          description |-> designs[did].description,
          type |-> designs[did].type,
          status |-> designs[did].status,
          created_at |-> fromisoformat(designs[did].created_at),
          updated_at |-> fromisoformat(designs[did].updated_at),
          requirement_ids |-> requirement_ids_of(did)]

DesignRowOf(design, created_at_text) ==
    [name |-> design.name,
     description |-> design.description,
     type |-> design.type,
     status |-> design.status,
     created_at |-> created_at_text,
     updated_at |-> isoformat(design.updated_at)]

\* a create on a table without AUTOINCREMENT: the new id is one more than the largest
\* id now stored
design_create_rowid(design) ==
    LET largest == IF DOMAIN designs = {} THEN 0
                   ELSE CHOOSE d \in DOMAIN designs : \A e \in DOMAIN designs : e <= d
        new_id == largest + 1
        conflict ==
            \/ design.name = None \/ design.description = None
            \/ HasDuplicates(design.requirement_ids)
            \/ DesignLinkRows(new_id, design.requirement_ids) \cap design_requirements # {}
    IN  IF conflict
        THEN [err |-> "IntegrityError", id |-> new_id,
              designs |-> designs,
              design_requirements |-> design_requirements,
              sqlite_sequence |-> sqlite_sequence]
        ELSE [err |-> "ok", id |-> new_id,
              designs |->
                  [d \in DOMAIN designs \cup {new_id} |->
                      IF d = new_id THEN DesignRowOf(design, isoformat(design.created_at))
                      ELSE designs[d]],
              design_requirements |->
                  design_requirements \cup DesignLinkRows(new_id, design.requirement_ids),
              sqlite_sequence |-> IF new_id > sqlite_sequence THEN new_id
                                  ELSE sqlite_sequence]

\* SQLiteDesignRepository.create: [err, id, designs, design_requirements, sqlite_sequence]
\* AUTOINCREMENT: the new id is one more than the largest id ever assigned
design_create(design) ==
    LET new_id == sqlite_sequence + 1
        conflict ==
            \/ design.name = None \/ design.description = None      \* NOT NULL
            \/ HasDuplicates(design.requirement_ids)   \* PRIMARY KEY (design_id, requirement_id)
            \/ DesignLinkRows(new_id, design.requirement_ids) \cap design_requirements # {}
    IN  IF conflict
        THEN [err |-> "IntegrityError", id |-> new_id,
              designs |-> designs,
              design_requirements |-> design_requirements,
              sqlite_sequence |-> sqlite_sequence]
        ELSE [err |-> "ok", id |-> new_id,
              designs |->
                  [d \in DOMAIN designs \cup {new_id} |->
                      IF d = new_id THEN DesignRowOf(design, isoformat(design.created_at))
                      ELSE designs[d]],
              design_requirements |->
                  design_requirements \cup DesignLinkRows(new_id, design.requirement_ids),
              sqlite_sequence |-> new_id]

\* SQLiteDesignRepository.update: [err, designs, design_requirements]
design_update(design) ==
    LET exists == design.id \in DOMAIN designs
        old == { x \in design_requirements : x[1] = design.id }
        conflict ==
            \/ design.name = None \/ design.description = None
            \/ HasDuplicates(design.requirement_ids)
    IN  IF conflict
        THEN [err |-> "IntegrityError",
              designs |-> designs,
              design_requirements |-> design_requirements]
        ELSE [err |-> "ok",
              designs |->
                  IF exists
                  THEN [designs EXCEPT
                           ![design.id] = DesignRowOf(design, designs[design.id].created_at)]
                  ELSE designs,
              design_requirements |->
                  (design_requirements \ old)
                      \cup DesignLinkRows(design.id, design.requirement_ids)]

\* SQLiteDesignRepository.delete: [ret, designs]
design_delete(did) ==
    [ret |-> TRUE,
     designs |-> [d \in DOMAIN designs \ {did} |-> designs[d]]]

---------------------------------------------------------------------------
(* managers/requirement_manager.py *)

\* data.get(key, default)
Get(data, key, default) == IF key \in DOMAIN data THEN data[key] ELSE default

\* RequirementStatus(value) / Priority(value) raise ValueError on a non-member
CoercionFails(data) ==
    \/ "status" \in DOMAIN data /\ data["status"] \notin RequirementStatus
    \/ "priority" \in DOMAIN data /\ data["priority"] \notin Priority

\* RequirementManager.create_requirement: [err, entity, requirements, requirement_designs]
\* t1, t2 are the two readings of datetime.now() (lines 61 and 62)
create_requirement(data, t1, t2) ==
    LET unchanged(e) == [err |-> e, entity |-> NoEntity,
                         requirements |-> requirements,
                         requirement_designs |-> requirement_designs]
        generate == "id" \notin DOMAIN data \/ data["id"] = None \/ data["id"] = <<>>
        next == get_next_id
    IN  IF generate /\ next.err # "ok" THEN unchanged(next.err)
        ELSE IF CoercionFails(data) THEN unchanged("ValueError")
        ELSE LET requirement ==
                     [id |-> IF generate THEN next.id ELSE data["id"],
                      title |-> Get(data, "title", <<>>),
                      description |-> Get(data, "description", <<>>),
                      status |-> Get(data, "status", "Draft"),
                      priority |-> Get(data, "priority", "Medium"),
                      category |-> Get(data, "category", <<>>),
                      parent_id |-> Get(data, "parent_id", None),
                      verification_criteria |-> Get(data, "verification_criteria", <<>>),
                      design_ids |-> <<>>,
                      created_at |-> t1,
                      updated_at |-> t2]
             IN  IF validate_requirement(requirement) # <<>> THEN unchanged("ValidationError")
                 ELSE LET r == req_create(requirement)
                      IN  [err |-> r.err,
                           entity |-> IF r.err = "ok" THEN requirement ELSE NoEntity,
                           requirements |-> r.requirements,
                           requirement_designs |-> r.requirement_designs]

\* a merge that takes every field from data, an absent key giving the default of a
\* create
ApplyFields_replace(requirement, data) ==
    [requirement EXCEPT
        !.title = Get(data, "title", <<>>),
        !.description = Get(data, "description", <<>>),
        !.status = Get(data, "status", "Draft"),
        !.priority = Get(data, "priority", "Medium"),
        !.category = Get(data, "category", <<>>),
        !.parent_id = Get(data, "parent_id", None),
        !.verification_criteria = Get(data, "verification_criteria", <<>>)]

\* the entity with the fields present in data applied (lines 97-112)
ApplyFields(requirement, data) ==
    [requirement EXCEPT
        !.title = Get(data, "title", @),
        !.description = Get(data, "description", @),
        !.status = Get(data, "status", @),
        !.priority = Get(data, "priority", @),
        !.category = Get(data, "category", @),
        !.parent_id = Get(data, "parent_id", @),
        !.verification_criteria = Get(data, "verification_criteria", @)]

\* an update that persists the merged entity before it validates it
update_requirement_write_first(req_id, data, t1, t2) ==
    LET unchanged(e) == [err |-> e, entity |-> NoEntity,
                         requirements |-> requirements,
                         requirement_designs |-> requirement_designs]
        existing == req_read(req_id)
    IN  IF existing = NoEntity THEN unchanged("EntityNotFoundError")
        ELSE IF CoercionFails(data) THEN unchanged("ValueError")
        ELSE LET requirement == [ApplyFields(existing, data) EXCEPT !.updated_at = t1]
                 r == req_update(requirement, t2)
             IN  [err |-> IF r.err # "ok" THEN r.err
                          ELSE IF validate_requirement(requirement) # <<>>
                               THEN "ValidationError" ELSE "ok",
                  entity |-> IF r.err = "ok" /\ validate_requirement(requirement) = <<>>
                             THEN [requirement EXCEPT !.updated_at = t2]
                             ELSE NoEntity,
                  requirements |-> r.requirements,
                  requirement_designs |-> r.requirement_designs]

\* an update that does not look for the stored entity: an absent id is given to the
\* repository's create
update_requirement_upsert(req_id, data, t1, t2) ==
    LET existing == req_read(req_id)
        base == IF existing = NoEntity
                THEN [id |-> req_id, title |-> <<>>, description |-> <<>>,
                      status |-> "Draft", priority |-> "Medium", category |-> <<>>,
                      parent_id |-> None, verification_criteria |-> <<>>,
                      design_ids |-> <<>>, created_at |-> t1, updated_at |-> t1]
                ELSE existing
        unchanged(e) == [err |-> e, entity |-> NoEntity,
                         requirements |-> requirements,
                         requirement_designs |-> requirement_designs]
    IN  IF CoercionFails(data) THEN unchanged("ValueError")
        ELSE LET requirement == [ApplyFields(base, data) EXCEPT !.updated_at = t1]
             IN  IF validate_requirement(requirement) # <<>> THEN unchanged("ValidationError")
                 ELSE LET r == IF existing = NoEntity
                               THEN [req_create(requirement) EXCEPT !.err = @]
                               ELSE req_update(requirement, t2)
                      IN  [err |-> r.err,
                           entity |-> IF r.err = "ok"
                                      THEN [requirement EXCEPT !.updated_at = t2]
                                      ELSE NoEntity,
                           requirements |-> r.requirements,
                           requirement_designs |-> r.requirement_designs]

\* RequirementManager.update_requirement: [err, entity, requirements, requirement_designs]
\* t1 is the reading of line 114, t2 that of the repository's update
update_requirement(req_id, data, t1, t2) ==
    LET unchanged(e) == [err |-> e, entity |-> NoEntity,
                         requirements |-> requirements,
                         requirement_designs |-> requirement_designs]
        existing == req_read(req_id)
    IN  IF existing = NoEntity THEN unchanged("EntityNotFoundError")
        ELSE IF CoercionFails(data) THEN unchanged("ValueError")
        ELSE LET requirement == [ApplyFields(existing, data) EXCEPT !.updated_at = t1]
             IN  IF validate_requirement(requirement) # <<>> THEN unchanged("ValidationError")
                 ELSE LET r == req_update(requirement, t2)
                      IN  [err |-> r.err,
                           entity |-> IF r.err = "ok"
                                      THEN [requirement EXCEPT !.updated_at = t2]
                                      ELSE NoEntity,
                           requirements |-> r.requirements,
                           requirement_designs |-> r.requirement_designs]

\* RequirementManager.delete_requirement
delete_requirement(req_id) == req_delete(req_id)

\* SQLiteRequirementRepository.find_all: the entities, ORDER BY id
find_all ==
    LET ids == SortedStrs(DOMAIN requirements)
    IN  [i \in 1..Len(ids) |-> req_read(ids[i])]

\* a search that looks at the title only
search_requirements_title(query) ==
    LET query_lower == lower(query)
        hit(req) == Contains(lower(req.title), query_lower)
    IN  SelectSeq(find_all, hit)

\* RequirementManager.search_requirements: the matching entities, in find_all's order
search_requirements(query) ==
    LET query_lower == lower(query)
        hit(req) == \/ Contains(lower(req.title), query_lower)
                    \/ Contains(lower(req.description), query_lower)
                    \/ Contains(lower(req.id), query_lower)
    IN  SelectSeq(find_all, hit)

---------------------------------------------------------------------------
(* managers/design_manager.py *)

\* DesignManager.create_design: the result of the repository's create
create_design(name, description, type, status, requirement_ids, now) ==
    design_create([id |-> 0,
                   name |-> name,
                   description |-> description,
                   type |-> type,
                   status |-> status,
                   created_at |-> now,
                   updated_at |-> now,
                   requirement_ids |-> IF requirement_ids = None THEN <<>> ELSE requirement_ids])

\* DesignManager.update_design
update_design(design, now) == design_update([design EXCEPT !.updated_at = now])

\* DesignManager.delete_design
delete_design(design_id) == design_delete(design_id)

---------------------------------------------------------------------------
(* The calls a client of the layer makes.  Each action is one whole call.  *)

\* what is recorded of a call: the operation, the id it returned (a create), its error
\* ("ok" when it returned) and a boolean it returned
Call(op, rid, did, err, ret) ==
    [op |-> op, rid |-> rid, did |-> did, err |-> err, ret |-> ret]

\* the readings of datetime.now() a call makes: the clock does not run backwards
Readings(t1, t2) == clock <= t1 /\ t1 <= t2 /\ t2 <= MaxClock

\* an entity as a caller of the store builds it
NewRequirement(rid, title, design_ids, now) ==
    [id |-> rid, title |-> title, description |-> <<>>, status |-> "Draft",
     priority |-> "Medium", category |-> <<>>, parent_id |-> None,
     verification_criteria |-> <<>>, design_ids |-> design_ids,
     created_at |-> now, updated_at |-> now]

NewDesign(did, name, requirement_ids, now) ==
    [id |-> did, name |-> name, description |-> <<"d">>, type |-> "Architecture",
     status |-> "Draft", created_at |-> now, updated_at |-> now,
     requirement_ids |-> requirement_ids]

\* the processes that call the Manager, each on its own connection
Clients == {"c1", "c2"}

\* a client that is in no call
Idle == [pc |-> "idle", read |-> NoEntity, requirement |-> NoEntity]

Init ==
    /\ requirements = <<>>
    /\ requirement_designs = {}
    /\ designs = <<>>
    /\ design_requirements = {}
    /\ sqlite_sequence = 0
    /\ clock = 0
    /\ _observers = <<>>
    /\ inflight = [c \in Clients |-> Idle]
    /\ last = Call("init", None, 0, "ok", FALSE)

\* RequirementManager.create_requirement(data)
MgrCreate(data, t1, t2) ==
    /\ Readings(t1, t2)
    /\ Cardinality(DOMAIN requirements) < MaxReqs
    /\ LET r == create_requirement(data, t1, t2)
       IN  /\ requirements' = r.requirements
           /\ requirement_designs' = r.requirement_designs
           /\ last' = Call("mgr_create", IF r.err = "ok" THEN r.entity.id ELSE None, 0,
                           r.err, r.err = "ok")
    /\ clock' = t2
    /\ UNCHANGED <<inflight, _observers, designs, design_requirements, sqlite_sequence>>

\* RequirementManager.update_requirement(req_id, data)
MgrUpdate(req_id, data, t1, t2) ==
    /\ Readings(t1, t2)
    /\ LET r == update_requirement(req_id, data, t1, t2)
       IN  /\ requirements' = r.requirements
           /\ requirement_designs' = r.requirement_designs
           /\ last' = Call("mgr_update", None, 0, r.err, r.err = "ok")
    /\ clock' = t2
    /\ UNCHANGED <<inflight, _observers, designs, design_requirements, sqlite_sequence>>

\* RequirementManager.delete_requirement(req_id)
MgrDelete(req_id) ==
    /\ LET r == delete_requirement(req_id)
       IN  /\ requirements' = r.requirements
           /\ last' = Call("mgr_delete", None, 0, r.err, r.ret)
    /\ UNCHANGED <<inflight, _observers, requirement_designs, designs, design_requirements,
                   sqlite_sequence, clock>>

\* SQLiteRequirementRepository.create(entity)
StoreCreate(rid, title, design_ids) ==
    /\ Cardinality(DOMAIN requirements) < MaxReqs
    /\ LET r == req_create(NewRequirement(rid, title, design_ids, clock))
       IN  /\ requirements' = r.requirements
           /\ requirement_designs' = r.requirement_designs
           /\ last' = Call("store_create", IF r.err = "ok" THEN rid ELSE None, 0,
                           r.err, r.err = "ok")
    /\ UNCHANGED <<inflight, _observers, designs, design_requirements, sqlite_sequence, clock>>

\* SQLiteRequirementRepository.update(entity): the entity read back and edited by the
\* caller, or one built by the caller when the id has no row
StoreUpdate(rid, title, design_ids) ==
    /\ LET entity == IF req_read(rid) = NoEntity
                     THEN NewRequirement(rid, title, design_ids, clock)
                     ELSE [req_read(rid) EXCEPT !.title = title, !.design_ids = design_ids]
           r == req_update(entity, clock)
       IN  /\ requirements' = r.requirements
           /\ requirement_designs' = r.requirement_designs
           /\ last' = Call("store_update", None, 0, r.err, r.ret)
    /\ UNCHANGED <<inflight, _observers, designs, design_requirements, sqlite_sequence, clock>>

\* DesignManager.create_design(name, description, type, status, requirement_ids)
DesignCreate(name, requirement_ids) ==
    /\ sqlite_sequence < MaxDesigns
    /\ LET r == create_design(name, <<"d">>, "Architecture", "Draft", requirement_ids, clock)
       IN  /\ designs' = r.designs
           /\ design_requirements' = r.design_requirements
           /\ sqlite_sequence' = r.sqlite_sequence
           /\ last' = Call("design_create", None, IF r.err = "ok" THEN r.id ELSE 0,
                           r.err, r.err = "ok")
    /\ UNCHANGED <<inflight, _observers, requirements, requirement_designs, clock>>

\* DesignManager.update_design(design): the design read back and edited by the caller,
\* or one built by the caller when the id has no row
DesignUpdate(did, name, requirement_ids) ==
    /\ LET design == IF design_get(did) = NoEntity
                     THEN NewDesign(did, name, requirement_ids, clock)
                     ELSE [design_get(did) EXCEPT !.name = name,
                                                  !.requirement_ids = requirement_ids]
           r == update_design(design, clock)
       IN  /\ designs' = r.designs
           /\ design_requirements' = r.design_requirements
           /\ last' = Call("design_update", None, 0, r.err, r.err = "ok")
    /\ UNCHANGED <<inflight, _observers, requirements, requirement_designs, sqlite_sequence, clock>>

\* DesignManager.delete_design(design_id)
DesignDelete(did) ==
    /\ LET r == delete_design(did)
       IN  /\ designs' = r.designs
           /\ last' = Call("design_delete", None, 0, "ok", r.ret)
    /\ UNCHANGED <<inflight, _observers, requirements, requirement_designs, design_requirements,
                   sqlite_sequence,
                   clock>>

\* RequirementManager.search_requirements(query): the ids of the entities returned
Search(query) ==
    /\ LET found == search_requirements(query)
       IN  last' = [op |-> "search", rid |-> None, did |-> 0, err |-> "ok", ret |-> FALSE,
                    result |-> [i \in 1..Len(found) |-> found[i].id]]
    /\ UNCHANGED <<inflight, _observers, tables, clock>>

\* time passes between calls
Tick ==
    /\ clock < MaxClock
    /\ clock' = clock + 1
    /\ UNCHANGED <<inflight, _observers, tables, last>>

---------------------------------------------------------------------------
(* controllers/requirement_controller.py, controllers/design_controller.py *)
(* What is recorded of a Controller call, besides the fields of Call:       *)
(*   returns   "outcome" when the call returned a (success, message, ...)   *)
(*             tuple, "entity" or "bool" when it returned the Manager's     *)
(*             value as it is, "raised" when an exception left the call     *)
(*   success, message   the first two members of an outcome                 *)
(*   notified  the listeners the call ran, in the order it ran them         *)
(***************************************************************************)

ControllerCall(op, rid, did, err, returns, success, message, notified) ==
    [op |-> op, rid |-> rid, did |-> did, err |-> err, ret |-> success,
     returns |-> returns, success |-> success, message |-> message,
     notified |-> notified]

\* a listener that raises an exception when it is called
Raising == "raises"

\* RequirementController.notify_observers raises: some listener of the list raises
notify_raises == \E i \in 1..Len(_observers) : _observers[i] = Raising

\* RequirementController.notify_observers: the listeners run, in the order of the list,
\* up to and including the first that raises
notify_observers ==
    IF notify_raises
    THEN SubSeq(_observers, 1,
                CHOOSE i \in 1..Len(_observers) :
                    /\ _observers[i] = Raising
                    /\ \A j \in 1..(i - 1) : _observers[j] # Raising)
    ELSE _observers

\* the message of the except clause that catches the error of a create (lines 43-48)
create_message(err) ==
    CASE err = "ok" -> "created successfully"
      [] err = "ValidationError" -> "Validation failed"
      [] err = "DatabaseError" -> "Database error"
      [] OTHER -> "Unexpected error"

\* the message of the except clause that catches the error of an update (lines 65-72)
update_message(err) ==
    CASE err = "ok" -> "updated successfully"
      [] err = "EntityNotFoundError" -> "not found"
      [] err = "ValidationError" -> "Validation failed"
      [] err = "DatabaseError" -> "Database error"
      [] OTHER -> "Unexpected error"

\* RequirementController.add_observer(observer)
AddObserver(observer) ==
    /\ Len(_observers) < MaxObservers
    /\ _observers' = Append(_observers, observer)
    /\ last' = Call("add_observer", None, 0, "ok", FALSE)
    /\ UNCHANGED <<inflight, tables, clock>>

\* RequirementController.create_requirement(data)
CtlCreate(data, t1, t2) ==
    /\ Readings(t1, t2)
    /\ Cardinality(DOMAIN requirements) < MaxReqs
    /\ LET r == create_requirement(data, t1, t2)
           ok == r.err = "ok"
           \* an exception of a listener is caught by the last except clause
           raised == ok /\ notify_raises
       IN  /\ requirements' = r.requirements
           /\ requirement_designs' = r.requirement_designs
           /\ last' = ControllerCall("ctl_create", IF ok THEN r.entity.id ELSE None, 0,
                                     r.err, "outcome", ok /\ ~raised,
                                     IF raised THEN "Unexpected error"
                                     ELSE create_message(r.err),
                                     IF ok THEN notify_observers ELSE <<>>)
    /\ clock' = t2
    /\ UNCHANGED <<inflight, _observers, designs, design_requirements, sqlite_sequence>>

\* RequirementController.update_requirement(req_id, data)
CtlUpdate(req_id, data, t1, t2) ==
    /\ Readings(t1, t2)
    /\ LET r == update_requirement(req_id, data, t1, t2)
           ok == r.err = "ok"
           raised == ok /\ notify_raises
       IN  /\ requirements' = r.requirements
           /\ requirement_designs' = r.requirement_designs
           /\ last' = ControllerCall("ctl_update", IF ok THEN req_id ELSE None, 0,
                                     r.err, "outcome", ok /\ ~raised,
                                     IF raised THEN "Unexpected error"
                                     ELSE update_message(r.err),
                                     IF ok THEN notify_observers ELSE <<>>)
    /\ clock' = t2
    /\ UNCHANGED <<inflight, _observers, designs, design_requirements, sqlite_sequence>>

\* a delete that runs the listeners whether or not a row was removed
CtlDelete_notify_always(req_id) ==
    /\ LET r == delete_requirement(req_id)
           raised == notify_raises
       IN  /\ requirements' = r.requirements
           /\ last' = ControllerCall("ctl_delete", None, 0, r.err, "outcome",
                                     r.ret /\ ~raised,
                                     IF raised THEN "Unexpected error"
                                     ELSE IF r.ret THEN "deleted successfully"
                                     ELSE "not found",
                                     notify_observers)
    /\ UNCHANGED <<inflight, _observers, requirement_designs, designs, design_requirements,
                   sqlite_sequence, clock>>

\* RequirementController.delete_requirement(req_id)
CtlDelete(req_id) ==
    /\ LET r == delete_requirement(req_id)
           raised == r.ret /\ notify_raises
       IN  /\ requirements' = r.requirements
           /\ last' = ControllerCall("ctl_delete", None, 0, r.err, "outcome",
                                     r.ret /\ ~raised,
                                     IF raised THEN "Unexpected error"
                                     ELSE IF r.ret THEN "deleted successfully"
                                     ELSE "not found",
                                     IF r.ret THEN notify_observers ELSE <<>>)
    /\ UNCHANGED <<inflight, _observers, requirement_designs, designs, design_requirements,
                   sqlite_sequence, clock>>

\* an argument the caller leaves to its default
Omitted == "<omitted>"

\* DesignController.create_design(name, description, type, status="Draft", requirement_ids)
\* returns what the Manager returns; an exception of the store leaves the call
DesignCtlCreate(name, description, status, requirement_ids) ==
    /\ sqlite_sequence < MaxDesigns
    /\ LET r == create_design(name, description, "Architecture",
                              IF status = Omitted THEN "Draft" ELSE status,
                              requirement_ids, clock)
           ok == r.err = "ok"
       IN  /\ designs' = r.designs
           /\ design_requirements' = r.design_requirements
           /\ sqlite_sequence' = r.sqlite_sequence
           /\ last' = ControllerCall("design_ctl_create", None, IF ok THEN r.id ELSE 0,
                                     r.err, IF ok THEN "entity" ELSE "raised", FALSE,
                                     "", <<>>)
    /\ UNCHANGED <<inflight, _observers, requirements, requirement_designs, clock>>

\* DesignController.update_design(design): the design read back and edited by the caller
DesignCtlUpdate(did, name, requirement_ids) ==
    /\ did \in DOMAIN designs
    /\ LET design == [design_get(did) EXCEPT !.name = name,
                                             !.requirement_ids = requirement_ids]
           r == update_design(design, clock)
           ok == r.err = "ok"
       IN  /\ designs' = r.designs
           /\ design_requirements' = r.design_requirements
           /\ last' = ControllerCall("design_ctl_update", None, did, r.err,
                                     IF ok THEN "entity" ELSE "raised", FALSE, "", <<>>)
    /\ UNCHANGED <<inflight, _observers, requirements, requirement_designs, sqlite_sequence, clock>>

\* DesignController.delete_design(design_id)
DesignCtlDelete(did) ==
    /\ LET r == delete_design(did)
       IN  /\ designs' = r.designs
           /\ last' = [ControllerCall("design_ctl_delete", None, did, "ok", "bool", FALSE,
                                      "", <<>>) EXCEPT !.ret = r.ret]
    /\ UNCHANGED <<inflight, _observers, requirements, requirement_designs, design_requirements,
                   sqlite_sequence, clock>>

---------------------------------------------------------------------------
(* Manager calls of two clients, interleaved.  A Manager call reads the     *)
(* store, works on local variables and then writes: the read and the write *)
(* are two calls of the repository, each one transaction on a connection   *)
(* of its own, and nothing holds a lock between them.  A call is therefore *)
(* two steps, with the calls of the other client free to run in between.   *)
(***************************************************************************)

\* what is recorded of a step: stale tells that the store changed between the read
\* and the write of the call
RaceCall(op, client, rid, err, stale) ==
    [op |-> op, rid |-> rid, did |-> 0, err |-> err, ret |-> err = "ok",
     client |-> client, stale |-> stale]

\* RequirementManager.create_requirement up to the end of the validation (lines 36-70):
\* [err, requirement]
build_requirement(data, t1, t2) ==
    LET generate == "id" \notin DOMAIN data \/ data["id"] = None \/ data["id"] = <<>>
        next == get_next_id
    IN  IF generate /\ next.err # "ok" THEN [err |-> next.err, requirement |-> NoEntity]
        ELSE IF CoercionFails(data) THEN [err |-> "ValueError", requirement |-> NoEntity]
        ELSE LET requirement ==
                     [id |-> IF generate THEN next.id ELSE data["id"],
                      title |-> Get(data, "title", <<>>),
                      description |-> Get(data, "description", <<>>),
                      status |-> Get(data, "status", "Draft"),
                      priority |-> Get(data, "priority", "Medium"),
                      category |-> Get(data, "category", <<>>),
                      parent_id |-> Get(data, "parent_id", None),
                      verification_criteria |-> Get(data, "verification_criteria", <<>>),
                      design_ids |-> <<>>,
                      created_at |-> t1,
                      updated_at |-> t2]
             IN  IF validate_requirement(requirement) # <<>>
                 THEN [err |-> "ValidationError", requirement |-> NoEntity]
                 ELSE [err |-> "ok", requirement |-> requirement]

\* create_requirement, first step: get_next_id, the Requirement built and validated
CreateAllocate(c, data, t1, t2) ==
    /\ inflight[c].pc = "idle"
    /\ Readings(t1, t2)
    /\ Cardinality(DOMAIN requirements) < MaxReqs
    /\ LET b == build_requirement(data, t1, t2)
       IN  IF b.err = "ok"
           THEN /\ inflight' = [inflight EXCEPT
                                   ![c] = [pc |-> "create", read |-> NoEntity,
                                           requirement |-> b.requirement]]
                /\ last' = RaceCall("get_next_id", c, b.requirement.id, "ok", FALSE)
           ELSE /\ inflight' = inflight
                /\ last' = RaceCall("mgr_create", c, None, b.err, FALSE)
    /\ clock' = t2
    /\ UNCHANGED <<_observers, tables>>

\* create_requirement, second step: repository.create (line 73)
CreatePersist(c) ==
    /\ inflight[c].pc = "create"
    /\ Cardinality(DOMAIN requirements) < MaxReqs
    /\ LET requirement == inflight[c].requirement
           r == req_create(requirement)
       IN  /\ requirements' = r.requirements
           /\ requirement_designs' = r.requirement_designs
           /\ last' = RaceCall("mgr_create", c, requirement.id, r.err,
                               requirement.id \in DOMAIN requirements)
    /\ inflight' = [inflight EXCEPT ![c] = Idle]
    /\ UNCHANGED <<_observers, designs, design_requirements, sqlite_sequence, clock>>

\* update_requirement, first step: repository.read, the fields applied and validated
\* (lines 92-121)
UpdateRead(c, req_id, data, t1) ==
    /\ inflight[c].pc = "idle"
    /\ Readings(t1, t1)
    /\ LET existing == req_read(req_id)
           requirement == [ApplyFields(existing, data) EXCEPT !.updated_at = t1]
           err == IF existing = NoEntity THEN "EntityNotFoundError"
                  ELSE IF CoercionFails(data) THEN "ValueError"
                  ELSE IF validate_requirement(requirement) # <<>> THEN "ValidationError"
                  ELSE "ok"
       IN  IF err = "ok"
           THEN /\ inflight' = [inflight EXCEPT
                                   ![c] = [pc |-> "update", read |-> existing,
                                           requirement |-> requirement]]
                /\ last' = RaceCall("read", c, req_id, "ok", FALSE)
           ELSE /\ inflight' = inflight
                /\ last' = RaceCall("mgr_update", c, req_id, err, FALSE)
    /\ clock' = t1
    /\ UNCHANGED <<_observers, tables>>

\* a write that raises when the stored entity is no longer the one the call read
UpdateWrite_locked(c, t2) ==
    /\ inflight[c].pc = "update"
    /\ Readings(t2, t2)
    /\ LET requirement == inflight[c].requirement
           stale == req_read(requirement.id) # inflight[c].read
           r == req_update(requirement, t2)
       IN  /\ requirements' = IF stale THEN requirements ELSE r.requirements
           /\ requirement_designs' =
                  IF stale THEN requirement_designs ELSE r.requirement_designs
           /\ last' = RaceCall("mgr_update", c, requirement.id,
                               IF stale THEN "DatabaseError" ELSE r.err, stale)
    /\ inflight' = [inflight EXCEPT ![c] = Idle]
    /\ clock' = t2
    /\ UNCHANGED <<_observers, designs, design_requirements, sqlite_sequence>>

\* update_requirement, second step: repository.update (line 124)
UpdateWrite(c, t2) ==
    /\ inflight[c].pc = "update"
    /\ Readings(t2, t2)
    /\ LET requirement == inflight[c].requirement
           r == req_update(requirement, t2)
       IN  /\ requirements' = r.requirements
           /\ requirement_designs' = r.requirement_designs
           /\ last' = RaceCall("mgr_update", c, requirement.id, r.err,
                               req_read(requirement.id) # inflight[c].read)
    /\ inflight' = [inflight EXCEPT ![c] = Idle]
    /\ clock' = t2
    /\ UNCHANGED <<_observers, designs, design_requirements, sqlite_sequence>>

---------------------------------------------------------------------------
(* Inputs *)

REQ_001 == <<"R", "E", "Q", "-", "0", "0", "1">>
REQ_002 == <<"R", "E", "Q", "-", "0", "0", "2">>
REQ_003 == <<"R", "E", "Q", "-", "0", "0", "3">>
REQ_050 == <<"R", "E", "Q", "-", "0", "5", "0">>
REQ_051 == <<"R", "E", "Q", "-", "0", "5", "1">>
REQ_5 == <<"R", "E", "Q", "-", "5">>
REQ_999 == <<"R", "E", "Q", "-", "9", "9", "9">>
REQ_1000 == <<"R", "E", "Q", "-", "1", "0", "0", "0">>
REQ_x == <<"R", "E", "Q", "-", "x">>

TitleA == <<"A">>
TitleB == <<"B">>

\* link lists over a set: one list per subset, and one list that repeats an element
RECURSIVE ListOf(_)
ListOf(S) ==
    IF S = {} THEN <<>>
    ELSE LET m == CHOOSE x \in S : TRUE IN <<m>> \o ListOf(S \ {m})

LinkLists(S) ==
    { ListOf(T) : T \in SUBSET S } \cup { <<x, x>> : x \in { CHOOSE y \in S : TRUE } }

\* the requirement ids the link-consistency specifications work on
LinkReqIds == {REQ_001, REQ_002}

\* the design ids a call may name, whether or not a design row exists
DesignIds == 1..MaxDesigns

(***************************************************************************)
(* Spec: both stores and their join tables; each side links to one id of   *)
(* the other side.                                                         *)
(***************************************************************************)

ReqLinks1 == LinkLists({1})
DesignLinks1 == LinkLists({REQ_001})

Next ==
    \/ \E rid \in LinkReqIds, ls \in ReqLinks1 : StoreCreate(rid, TitleA, ls)
    \/ \E rid \in LinkReqIds, ls \in ReqLinks1 : StoreUpdate(rid, TitleA, ls)
    \/ \E rid \in LinkReqIds : MgrDelete(rid)
    \/ \E ls \in DesignLinks1 : DesignCreate(TitleA, ls)
    \/ \E did \in DesignIds, ls \in DesignLinks1 : DesignUpdate(did, TitleA, ls)
    \/ \E did \in DesignIds : DesignDelete(did)

Spec == Init /\ [][Next]_vars

(***************************************************************************)
(* SpecIds: id allocation.  Requirements are created through the Manager,  *)
(* with a generated id or an id the caller supplies; the supplied ids may  *)
(* be deleted again.                                                       *)
(***************************************************************************)

ExplicitIds == {REQ_050, REQ_5, REQ_999, REQ_x}

\* create data with no id, or an id that is not truthy: the Manager generates one
AutoData == { [title |-> TitleA], [title |-> TitleA, id |-> <<>>] }

IdCreateData == AutoData \cup { [title |-> TitleA, id |-> i] : i \in ExplicitIds }

NextIds ==
    \/ \E data \in IdCreateData : MgrCreate(data, clock, clock)
    \/ \E rid \in ExplicitIds : MgrDelete(rid)

SpecIds == Init /\ [][NextIds]_vars

---------------------------------------------------------------------------
(* Link consistency, checked under Spec *)

\* C1: for every stored Requirement R and stored Design D, read(R).design_ids holds
\* D.id if and only if get(D).requirement_ids holds R.id.
C1_LinkSymmetry ==
    \A r \in DOMAIN requirements, d \in DOMAIN designs :
        (d \in Range(req_read(r).design_ids)) <=> (r \in Range(design_get(d).requirement_ids))

\* C2: a Requirement delete(id) that returns true leaves no join row naming id, in
\* requirement_designs or in design_requirements.
C2_DeleteRemovesLinks ==
    [][\A rid \in LinkReqIds :
          (MgrDelete(rid) /\ last'.ret)
              => /\ \A x \in requirement_designs' : x[1] # rid
                 /\ \A x \in design_requirements' : x[2] # rid]_vars

\* C3: deleting a stored Design d leaves d in no stored Requirement's design_ids, and
\* leaves no design_requirements row of d.
C3_DesignDeleteCascades ==
    [][\A did \in DesignIds :
          (did \in DOMAIN designs /\ DesignDelete(did))
              => /\ \A r \in DOMAIN requirements' : did \notin Range(req_read(r).design_ids)'
                 /\ \A x \in design_requirements' : x[1] # did]_vars

\* C9: Store create(entity) on an existing id fails with DatabaseError and changes no
\* row; on an absent id (the link list naming each design once) it succeeds and the
\* stored entity reads back with exactly the supplied design ids.
C9_StoreCreate ==
    [][\A rid \in LinkReqIds, ls \in ReqLinks1 :
          StoreCreate(rid, TitleA, ls)
              => IF rid \in DOMAIN requirements
                 THEN last'.err = "DatabaseError" /\ UNCHANGED tables
                 ELSE ~HasDuplicates(ls)
                          => /\ last'.err = "ok"
                             /\ rid \in DOMAIN requirements'
                             /\ Range(req_read(rid).design_ids)' = Range(ls)]_vars

---------------------------------------------------------------------------
(* Id allocation, checked under SpecIds *)

\* the text after "REQ-"
Suffix(rid) == SubSeq(rid, 5, Len(rid))

\* C4: Manager creates with no supplied id yield REQ-001, REQ-002, REQ-003 from an
\* empty store; and when the greatest stored id is REQ-n, whether generated or supplied,
\* the generated id is REQ-(n+1), padded to three digits: REQ-051 after REQ-050.
C4_IdAllocation ==
    [][\A data \in AutoData :
          (MgrCreate(data, clock, clock) /\ last'.err = "ok")
              => /\ DOMAIN requirements = {} => last'.rid = REQ_001
                 /\ DOMAIN requirements = {REQ_001} => last'.rid = REQ_002
                 /\ DOMAIN requirements = {REQ_001, REQ_002} => last'.rid = REQ_003
                 /\ \A m \in DOMAIN requirements :
                       (/\ \A o \in DOMAIN requirements : o = m \/ StrLess(o, m)
                        /\ IsInt(Suffix(m)))
                           => /\ StartsWith(last'.rid, REQ)
                              /\ IsInt(Suffix(last'.rid))
                              /\ Len(Suffix(last'.rid)) >= 3
                              /\ ParseInt(Suffix(last'.rid)) = ParseInt(Suffix(m)) + 1
                 /\ (REQ_050 \in DOMAIN requirements
                        /\ \A o \in DOMAIN requirements : o = REQ_050 \/ StrLess(o, REQ_050))
                       => last'.rid = REQ_051
                 /\ last'.rid \in DOMAIN requirements'
                 /\ last'.rid \notin DOMAIN requirements]_vars

\* a generated REQ-051 follows the supplied REQ-050, itself created after REQ-001
C4_Witness ==
    /\ last.op = "mgr_create" /\ last.err = "ok" /\ last.rid = REQ_051
    /\ {REQ_001, REQ_050, REQ_051} = DOMAIN requirements

(***************************************************************************)
(* SpecFields: the Manager's create and update of a Requirement's fields,  *)
(* with data that passes validation and data that fails it.  REQ-001 may   *)
(* also be created by the Store with a link to design 1, so that a stored  *)
(* Requirement has a non-empty link set.  REQ-003 is never stored.         *)
(***************************************************************************)

LongTitle == [i \in 1..(MaxTitleLen + 1) |-> "x"]
LongCategory == [i \in 1..(MaxCategoryLen + 1) |-> "c"]
BlankTitle == <<" ", " ">>
BAD_1 == <<"B", "A", "D", "-", "1">>

FullData ==
    [title |-> TitleB, description |-> <<"d">>, status |-> "Approved", priority |-> "High",
     category |-> <<"c">>, parent_id |-> REQ_001, verification_criteria |-> <<"v">>]

\* create data that passes validation
ValidCreateData ==
    { [id |-> REQ_001, title |-> TitleA],
      [id |-> REQ_002] @@ FullData }

\* create data that fails validation: the title missing, empty, blank or too long, the
\* category too long, the id without the prefix
InvalidCreateData ==
    { [id |-> REQ_002, title |-> <<>>],
      [id |-> REQ_002, title |-> BlankTitle],
      [id |-> REQ_002],
      [title |-> <<>>],
      [id |-> REQ_003, title |-> LongTitle],
      [id |-> REQ_003, title |-> TitleA, category |-> LongCategory],
      [id |-> BAD_1, title |-> TitleA],
      [id |-> REQ_003, title |-> BlankTitle, status |-> "Approved", priority |-> "High"] }

FieldCreateData == ValidCreateData \cup InvalidCreateData

\* update data that passes validation on any stored Requirement; the keys id and
\* design_ids are not among those the Manager applies
ValidUpdateData ==
    { [title |-> TitleB],
      [status |-> "Approved"],
      [parent_id |-> REQ_002],
      [priority |-> "High", verification_criteria |-> <<"v">>, description |-> <<"d">>],
      FullData,
      [id |-> REQ_003, design_ids |-> <<2>>, status |-> "Draft"] }

\* update data whose merged entity fails validation
InvalidUpdateData ==
    { [title |-> <<>>],
      [title |-> BlankTitle],
      [title |-> None],
      [title |-> LongTitle],
      [category |-> LongCategory],
      [status |-> "Approved", title |-> <<>>],
      [design_ids |-> <<2>>, category |-> LongCategory, title |-> TitleB] }

\* update data with a status that is no member of the enumeration
CoercionUpdateData == { [status |-> "Bogus"] }

FieldUpdateData == ValidUpdateData \cup InvalidUpdateData \cup CoercionUpdateData

OtherUpdateData == { [title |-> TitleB], [title |-> <<>>] }

FieldReqIds == {REQ_001, REQ_002, REQ_003}

NextFields ==
    \/ \E data \in FieldCreateData : MgrCreate(data, clock, clock)
    \/ StoreCreate(REQ_001, TitleA, <<1>>)
    \/ \E data \in FieldUpdateData : MgrUpdate(REQ_001, data, clock, clock)
    \/ \E rid \in {REQ_002, REQ_003}, data \in OtherUpdateData :
           MgrUpdate(rid, data, clock, clock)
    \/ Tick

SpecFields == Init /\ [][NextFields]_vars

---------------------------------------------------------------------------
(* The Manager's validation and update frame, checked under SpecFields *)

\* C5: a Manager create whose entity fails validation (title missing, empty, blank or
\* too long, category too long, id without the prefix) raises ValidationError, and a
\* create that raises ValidationError writes nothing: every table is as it was.
C5_CreateValidation ==
    [][\A data \in FieldCreateData :
          (last'.op = "mgr_create" /\ MgrCreate(data, clock, clock))
              => /\ data \in InvalidCreateData => last'.err = "ValidationError"
                 /\ last'.err = "ValidationError" => UNCHANGED tables]_vars

\* a create was refused by validation while REQ-001 and its link were stored
C5_Witness ==
    /\ last.op = "mgr_create" /\ last.err = "ValidationError"
    /\ REQ_001 \in DOMAIN requirements
    /\ <<REQ_001, 1>> \in requirement_designs

\* C6: a Manager update(id, data) that succeeds on a stored Requirement sets each field
\* whose key is in data to the value given, sets updated_at to the time of the call, and
\* leaves every field whose key is absent, and id, created_at and design_ids, as they
\* read before; no other Requirement, and no design or join row, changes.
C6_PartialUpdateFrame ==
    [][\A rid \in FieldReqIds, data \in FieldUpdateData :
          (/\ last'.op = "mgr_update" /\ last'.err = "ok"
           /\ rid \in DOMAIN requirements
           /\ MgrUpdate(rid, data, clock, clock))
              => /\ DOMAIN requirements' = DOMAIN requirements
                 /\ \A k \in ScalarKeys :
                       req_read(rid)'[k] = IF k \in DOMAIN data THEN data[k]
                                           ELSE req_read(rid)[k]
                 /\ req_read(rid)'.id = rid
                 /\ req_read(rid)'.created_at = req_read(rid).created_at
                 /\ req_read(rid)'.design_ids = req_read(rid).design_ids
                 /\ req_read(rid)'.updated_at = clock'
                 /\ \A o \in DOMAIN requirements \ {rid} : req_read(o)' = req_read(o)
                 /\ UNCHANGED <<requirement_designs, designs, design_requirements,
                                sqlite_sequence>>]_vars

\* REQ-001, linked to design 1, was updated after its creation with a status only: the
\* title is the one it was created with
C6_Witness ==
    /\ last.op = "mgr_update" /\ last.err = "ok"
    /\ REQ_001 \in DOMAIN requirements
    /\ req_read(REQ_001).title = TitleA
    /\ req_read(REQ_001).status = "Approved"
    /\ req_read(REQ_001).description = <<>>
    /\ req_read(REQ_001).design_ids = <<1>>
    /\ req_read(REQ_001).updated_at > req_read(REQ_001).created_at
    /\ REQ_002 \in DOMAIN requirements

\* C7: a Manager update of a stored Requirement whose merged entity fails validation
\* raises ValidationError, and an update that raises ValidationError leaves the stored
\* entity (fields, updated_at, links) and every table as before the call.
C7_UpdateValidation ==
    [][/\ \A rid \in FieldReqIds, data \in InvalidUpdateData :
             (/\ last'.op = "mgr_update"
              /\ rid \in DOMAIN requirements
              /\ MgrUpdate(rid, data, clock, clock))
                 => last'.err = "ValidationError"
       /\ (last'.op = "mgr_update" /\ last'.err = "ValidationError")
             => /\ UNCHANGED tables
                /\ \A rid \in DOMAIN requirements : req_read(rid)' = req_read(rid)]_vars

\* an update of REQ-001 was refused by validation at a time later than its last write
C7_Witness ==
    /\ last.op = "mgr_update" /\ last.err = "ValidationError"
    /\ REQ_001 \in DOMAIN requirements
    /\ req_read(REQ_001).design_ids = <<1>>
    /\ clock > req_read(REQ_001).updated_at

\* C8: a Manager update(id, data) for an id with no stored Requirement raises
\* EntityNotFoundError and writes nothing: no requirement row and no join row is
\* created or changed.
C8_UpdateNotFound ==
    [][\A rid \in FieldReqIds, data \in FieldUpdateData :
          (last'.op = "mgr_update" /\ rid \notin DOMAIN requirements
                                   /\ MgrUpdate(rid, data, clock, clock))
              => /\ last'.err = "EntityNotFoundError"
                 /\ UNCHANGED tables]_vars

\* an update of an absent id was refused while other Requirements were stored
C8_Witness ==
    /\ last.op = "mgr_update" /\ last.err = "EntityNotFoundError"
    /\ REQ_003 \notin DOMAIN requirements
    /\ DOMAIN requirements = {REQ_001, REQ_002}

(***************************************************************************)
(* SpecReplace: the link lists both stores write on create and update,     *)
(* over two requirement ids and two design ids; updates are of stored ids. *)
(***************************************************************************)

ReplaceDesignIds == {1, 2}
ReqLinks2 == LinkLists(ReplaceDesignIds)
DesignLinks2 == LinkLists(LinkReqIds)

NextReplace ==
    \/ \E rid \in LinkReqIds, ls \in ReqLinks2 : StoreCreate(rid, TitleA, ls)
    \/ \E rid \in DOMAIN requirements, ls \in ReqLinks2 : StoreUpdate(rid, TitleA, ls)
    \/ \E ls \in DesignLinks2 : DesignCreate(TitleA, ls)
    \/ \E did \in DOMAIN designs, ls \in DesignLinks2 : DesignUpdate(did, TitleA, ls)

SpecReplace == Init /\ [][NextReplace]_vars

\* C10: a Requirement Store update(entity) that raises nothing on a stored id leaves
\* read(id).design_ids equal, as a set, to entity.design_ids, and a Design Store update
\* on a stored id leaves get(id).requirement_ids equal to the supplied set; the join rows
\* of every other id, and the other store's join table, are as before.
C10_ReplaceLinks ==
    [][/\ \A rid \in LinkReqIds, ls \in ReqLinks2 :
             (/\ last'.op = "store_update" /\ last'.err = "ok"
              /\ rid \in DOMAIN requirements
              /\ StoreUpdate(rid, TitleA, ls))
                 => /\ Range(req_read(rid).design_ids)' = Range(ls)
                    /\ { x \in requirement_designs' : x[1] # rid }
                           = { x \in requirement_designs : x[1] # rid }
                    /\ design_requirements' = design_requirements
       /\ \A did \in DOMAIN designs, ls \in DesignLinks2 :
             (/\ last'.op = "design_update" /\ last'.err = "ok"
              /\ DesignUpdate(did, TitleA, ls))
                 => /\ Range(design_get(did).requirement_ids)' = Range(ls)
                    /\ { x \in design_requirements' : x[1] # did }
                           = { x \in design_requirements : x[1] # did }
                    /\ requirement_designs' = requirement_designs]_vars

\* REQ-001, stored with links to designs 1 and 2, was updated to the list [2] while
\* REQ-002 kept its link to design 1
C10_Witness ==
    /\ last.op = "store_update" /\ last.err = "ok"
    /\ REQ_001 \in DOMAIN requirements /\ REQ_002 \in DOMAIN requirements
    /\ req_read(REQ_001).design_ids = <<2>>
    /\ req_read(REQ_002).design_ids = <<1>>

---------------------------------------------------------------------------
(* Round trip of a create, checked under Spec *)

\* C11: in any reachable state, an entity created by a store and read back by the id
\* the create returned has every non-timestamp field, and the set of its links, equal
\* to what was given to the create: for a Requirement and for a Design.
C11_RoundTrip ==
    [][/\ \A rid \in LinkReqIds, ls \in ReqLinks1 :
             (/\ last'.op = "store_create" /\ last'.err = "ok"
              /\ StoreCreate(rid, TitleA, ls))
                 => LET given == NewRequirement(rid, TitleA, ls, clock)
                        back == req_read(rid)'
                    IN  /\ last'.rid = rid
                        /\ back.id = given.id
                        /\ \A k \in ScalarKeys : back[k] = given[k]
                        /\ Range(back.design_ids) = Range(given.design_ids)
       /\ \A ls \in DesignLinks1, did \in DesignIds :
             (/\ last'.op = "design_create" /\ last'.err = "ok" /\ last'.did = did
              /\ DesignCreate(TitleA, ls))
                 => LET back == design_get(did)'
                    IN  /\ back.name = TitleA
                        /\ back.description = <<"d">>
                        /\ back.type = "Architecture"
                        /\ back.status = "Draft"
                        /\ Range(back.requirement_ids) = Range(ls)]_vars

(***************************************************************************)
(* SpecTime: timestamps.  A call of the Requirement Manager reads the      *)
(* clock twice (create: lines 61 and 62; update: line 114 and the Store's  *)
(* line 144), and the clock may advance between the two readings.  The     *)
(* Design Manager reads it once per call.                                  *)
(***************************************************************************)

Times == 0..MaxClock

TimeCreateData == { [id |-> REQ_001, title |-> TitleA] }
TimeUpdateData == { [title |-> TitleB], [status |-> "Approved"] }

NextTime ==
    \/ \E data \in TimeCreateData, t1 \in Times, t2 \in Times : MgrCreate(data, t1, t2)
    \/ \E data \in TimeUpdateData, t1 \in Times, t2 \in Times :
           MgrUpdate(REQ_001, data, t1, t2)
    \/ DesignCreate(TitleA, <<>>)
    \/ \E did \in DOMAIN designs : DesignUpdate(did, TitleB, <<>>)
    \/ Tick

SpecTime == Init /\ [][NextTime]_vars

\* C12: right after a create through the Manager, the created Requirement or Design
\* reads back with created_at equal to updated_at, whatever the clock does between two
\* readings.
C12_CreatedEqualsUpdated ==
    /\ (last.op = "mgr_create" /\ last.err = "ok")
          => \A rid \in DOMAIN requirements :
                rid = last.rid => req_read(rid).created_at = req_read(rid).updated_at
    /\ (last.op = "design_create" /\ last.err = "ok")
          => \A did \in DOMAIN designs :
                did = last.did => design_get(did).created_at = design_get(did).updated_at

\* C20: in every step the created_at of each stored Requirement and Design stays as it
\* was and its updated_at does not go back; a successful update of a stored entity sets
\* its updated_at to the time of the update; and updated_at is never earlier than
\* created_at.
C20_Timestamps ==
    [][/\ \A rid \in DOMAIN requirements \cap DOMAIN requirements' :
             /\ req_read(rid)'.created_at = req_read(rid).created_at
             /\ req_read(rid)'.updated_at >= req_read(rid).updated_at
       /\ \A did \in DOMAIN designs \cap DOMAIN designs' :
             /\ design_get(did)'.created_at = design_get(did).created_at
             /\ design_get(did)'.updated_at >= design_get(did).updated_at
       /\ \A rid \in DOMAIN requirements' :
             req_read(rid)'.updated_at >= req_read(rid)'.created_at
       /\ \A did \in DOMAIN designs' :
             design_get(did)'.updated_at >= design_get(did)'.created_at
       /\ \A data \in TimeUpdateData, t1 \in Times, t2 \in Times :
             (/\ last'.op = "mgr_update" /\ last'.err = "ok"
              /\ MgrUpdate(REQ_001, data, t1, t2))
                 => req_read(REQ_001)'.updated_at = clock'
       /\ \A did \in DOMAIN designs :
             (/\ last'.op = "design_update" /\ last'.err = "ok"
              /\ DesignUpdate(did, TitleB, <<>>))
                 => design_get(did)'.updated_at = clock']_vars

\* REQ-001 and design 1 were each updated at a time later than their creation
C20_Witness ==
    /\ last.op = "mgr_update" /\ last.err = "ok"
    /\ REQ_001 \in DOMAIN requirements /\ 1 \in DOMAIN designs
    /\ req_read(REQ_001).created_at = 0
    /\ req_read(REQ_001).updated_at = MaxClock
    /\ design_get(1).name = TitleB
    /\ design_get(1).updated_at > design_get(1).created_at

---------------------------------------------------------------------------
(* Design ids, checked under Spec *)

\* C19: over any sequence of Design creates, updates and deletes, a create returns an
\* id greater than every id an earlier create returned: sqlite_sequence, 0 at first, is
\* changed only by a successful create, which returns an id greater than it and sets it
\* to that id; so the id of a deleted Design is not assigned again.
C19_DesignIdsIncrease ==
    [][IF last'.op = "design_create" /\ last'.err = "ok"
       THEN /\ last'.did > sqlite_sequence
            /\ \A d \in DOMAIN designs : last'.did > d
            /\ sqlite_sequence' = last'.did
            /\ DOMAIN designs' = DOMAIN designs \cup {last'.did}
       ELSE sqlite_sequence' = sqlite_sequence]_vars

\* design 2 was created after design 1 had been created and deleted
C19_Witness ==
    /\ last.op = "design_create" /\ last.err = "ok" /\ last.did = 2
    /\ DOMAIN designs = {2}

(***************************************************************************)
(* SpecPattern: the ids of the Requirements the Manager stores.  Creates   *)
(* generate the id or take the one supplied; updates carry an id key.      *)
(***************************************************************************)

RenameData == [id |-> REQ_002, title |-> TitleB]

NextPattern ==
    \/ \E data \in IdCreateData : MgrCreate(data, clock, clock)
    \/ \E rid \in DOMAIN requirements : MgrUpdate(rid, RenameData, clock, clock)
    \/ \E rid \in ExplicitIds \cup {REQ_001} : MgrDelete(rid)

SpecPattern == Init /\ [][NextPattern]_vars

\* REQ- followed by three or more digits
IdPattern(rid) ==
    /\ StartsWith(rid, REQ)
    /\ Len(Suffix(rid)) >= 3
    /\ \A i \in 1..Len(Suffix(rid)) : IsDigit(Suffix(rid)[i])

\* C16: after any sequence of Manager creates, updates and deletes every stored
\* Requirement id is REQ- followed by three or more digits, and an update, also one
\* whose data has an id key, leaves the set of stored ids as it was.
C16_IdPattern ==
    [][/\ \A rid \in DOMAIN requirements' : IdPattern(rid)
       /\ last'.op = "mgr_update" => DOMAIN requirements' = DOMAIN requirements]_vars

(***************************************************************************)
(* SpecCtl: the Requirement controller, with listeners registered at any   *)
(* time.  Creates generate the id or supply REQ-001; the data may fail     *)
(* validation or name a status that is no member of the enumeration.       *)
(***************************************************************************)

Listeners == {"a", "b"}

\* data with a status or priority string that is no member of its enumeration
BadEnumCreateData == { [title |-> TitleA, status |-> "Bogus"],
                       [title |-> TitleA, priority |-> "Bogus"] }
BadEnumUpdateData == { [status |-> "Bogus"] }

CtlCreateData ==
    { [title |-> TitleA], [id |-> REQ_001, title |-> TitleA], [title |-> <<>>] }
        \cup BadEnumCreateData

CtlUpdateData == { [title |-> TitleB], [title |-> <<>>] } \cup BadEnumUpdateData

CtlReqIds == {REQ_001, REQ_002}

NextCtl ==
    \/ \E o \in Listeners : AddObserver(o)
    \/ \E data \in CtlCreateData : CtlCreate(data, clock, clock)
    \/ \E rid \in CtlReqIds, data \in CtlUpdateData : CtlUpdate(rid, data, clock, clock)
    \/ \E rid \in CtlReqIds : CtlDelete(rid)

SpecCtl == Init /\ [][NextCtl]_vars

\* C13: a Controller create or update whose data names a status or priority that is no
\* member of its enumeration fails as a validation failure: the Manager raises
\* ValidationError, the outcome is (false, "Validation failed ...") and no table
\* changes.
C13_InvalidEnumIsValidation ==
    [][/\ \A data \in BadEnumCreateData :
             (last'.op = "ctl_create" /\ CtlCreate(data, clock, clock))
                 => /\ last'.err = "ValidationError"
                    /\ ~last'.success /\ last'.message = "Validation failed"
                    /\ UNCHANGED tables
       /\ \A rid \in CtlReqIds, data \in BadEnumUpdateData :
             (/\ last'.op = "ctl_update" /\ rid \in DOMAIN requirements
              /\ CtlUpdate(rid, data, clock, clock))
                 => /\ last'.err = "ValidationError"
                    /\ ~last'.success /\ last'.message = "Validation failed"
                    /\ UNCHANGED tables]_vars

\* C18: a Requirement delete(id) returns true exactly when a row with that id was
\* stored, and the row is then gone and every other row as before; otherwise it returns
\* false, no table changes and the Controller's outcome is (false, "... not found").
C18_DeleteReturn ==
    [][\A rid \in CtlReqIds :
          (last'.op = "ctl_delete" /\ CtlDelete(rid))
              => /\ last'.ret = (rid \in DOMAIN requirements)
                 /\ last'.success = last'.ret
                 /\ rid \notin DOMAIN requirements'
                 /\ DOMAIN requirements' = DOMAIN requirements \ {rid}
                 /\ \A o \in DOMAIN requirements' : requirements'[o] = requirements[o]
                 /\ ~last'.ret => (UNCHANGED tables /\ last'.message = "not found")]_vars

\* REQ-001 was deleted a second time: REQ-002, generated after it, is still stored
C18_Witness ==
    /\ last.op = "ctl_delete" /\ ~last.ret /\ last.message = "not found"
    /\ DOMAIN requirements = {REQ_002}

(***************************************************************************)
(* SpecControllers: both controllers, with listeners registered at any     *)
(* time.  A Design is created with or without a name and a description,    *)
(* with the status left to its default or given, and with a link list that *)
(* may repeat an id.                                                       *)
(***************************************************************************)

\* <<name, description, status, requirement_ids>>
DesignCreateArgs ==
    { <<TitleA, <<"d">>, Omitted, <<>>>>,
      <<TitleA, <<"d">>, "Approved", <<REQ_001>>>>,
      <<<<>>, <<"d">>, Omitted, <<>>>>,
      <<TitleA, <<>>, Omitted, <<>>>>,
      <<TitleA, <<"d">>, Omitted, <<REQ_001, REQ_001>>>> }

ControllerCreateData == { [id |-> REQ_001, title |-> TitleA], [title |-> <<>>] }

NextControllers ==
    \/ \E o \in Listeners : AddObserver(o)
    \/ \E data \in ControllerCreateData : CtlCreate(data, clock, clock)
    \/ \E data \in CtlUpdateData : CtlUpdate(REQ_001, data, clock, clock)
    \/ CtlDelete(REQ_001)
    \/ \E a \in DesignCreateArgs : DesignCtlCreate(a[1], a[2], a[3], a[4])
    \/ \E did \in DOMAIN designs, ls \in DesignLinks1 : DesignCtlUpdate(did, TitleB, ls)
    \/ \E did \in DesignIds : DesignCtlDelete(did)

SpecControllers == Init /\ [][NextControllers]_vars

ControllerOps ==
    {"ctl_create", "ctl_update", "ctl_delete",
     "design_ctl_create", "design_ctl_update", "design_ctl_delete"}

\* C14: every mutating Controller call, of a Requirement or of a Design, returns an
\* outcome (success, message, entity-or-absent); no exception leaves the call, and a
\* call in which an error was raised returns success = false.
C14_ControllerOutcome ==
    last.op \in ControllerOps
        => /\ last.returns # "raised"
           /\ last.returns = "outcome"
           /\ last.err # "ok" => ~last.success

\* the call did what it was asked to do
Succeeded(call) ==
    /\ call.err = "ok"
    /\ call.returns = "outcome" => call.success
    /\ call.returns = "bool" => call.ret

\* C15: every successful Controller create, update or delete, of a Requirement or of a
\* Design, runs every registered listener once per registration, in the order of
\* registration; a call that fails runs none.
C15_ObserversNotified ==
    last.op \in ControllerOps
        => IF Succeeded(last) THEN last.notified = _observers
           ELSE last.notified = <<>>

\* C17: a Design create with an empty name or an empty description is rejected and
\* writes no row; a create that succeeds with the status not supplied stores the status
\* Draft.
C17_DesignCreateValidates ==
    [][\A a \in DesignCreateArgs :
          (last'.op = "design_ctl_create" /\ DesignCtlCreate(a[1], a[2], a[3], a[4]))
              => /\ (a[1] = <<>> \/ a[2] = <<>>)
                        => (last'.err # "ok" /\ UNCHANGED tables)
                 /\ (last'.err = "ok" /\ a[3] = Omitted)
                        => \A did \in DOMAIN designs' :
                              did = last'.did => designs'[did].status = "Draft"]_vars

(***************************************************************************)
(* SpecSearch: search over the stored Requirements.  Requirements are      *)
(* created through the Manager with generated ids and may be deleted.      *)
(***************************************************************************)

Login_flow == <<"L", "o", "g", "i", "n", " ", "f", "l", "o", "w">>
Logout_flow == <<"L", "o", "g", "o", "u", "t", " ", "f", "l", "o", "w">>
Other == <<"X", "a">>
See_LOG == <<"s", "e", "e", " ", "L", "O", "G">>

SearchCreateData ==
    { [title |-> Login_flow],
      [title |-> Logout_flow],
      [title |-> Other, description |-> See_LOG] }

Queries ==
    { <<"l", "o", "g">>, <<"L", "O", "G">>, <<"L", "o", "g", "i">>, REQ_002,
      <<"r", "e", "q", "-", "0", "0">>, <<"f", "l", "o", "w", "s">>, <<>> }

NextSearch ==
    \/ \E data \in SearchCreateData : MgrCreate(data, clock, clock)
    \/ \E rid \in {REQ_001, REQ_002} : MgrDelete(rid)
    \/ \E query \in Queries : Search(query)

SpecSearch == Init /\ [][NextSearch]_vars

\* query, compared case-insensitively, is a substring of the id, title or description
Matches(rid, query) ==
    \/ Contains(lower(rid), lower(query))
    \/ Contains(lower(requirements[rid].title), lower(query))
    \/ Contains(lower(requirements[rid].description), lower(query))

AtomicLinks == { <<>>, <<1>>, <<1, 2>>, <<2, 2>>, <<1, 2, 1>> }

NextAtomic ==
    \/ \E rid \in LinkReqIds, ls \in {<<>>, <<1>>} : StoreCreate(rid, TitleA, ls)
    \/ \E rid \in DOMAIN requirements, title \in {TitleA, TitleB}, ls \in AtomicLinks :
          StoreUpdate(rid, title, ls)
    \/ Tick

SpecAtomic == Init /\ [][NextAtomic]_vars

\* C23: a Requirement Store update of a stored id is all-or-nothing.  One that fails
\* because its design_ids list names a design id twice fails with the storage error
\* and leaves every table as it was: scalar fields, updated_at and the join rows.  One
\* that succeeds leaves the id with exactly the join rows of its list.  The update is
\* one step, so no state in which the old join rows are deleted and the new ones are
\* not yet inserted is ever the state a reader sees.
C23_AtomicReplace ==
    [][\A rid \in LinkReqIds, title \in {TitleA, TitleB}, ls \in AtomicLinks :
          (/\ last'.op = "store_update"
           /\ rid \in DOMAIN requirements
           /\ StoreUpdate(rid, title, ls))
              => /\ HasDuplicates(ls)
                       => /\ last'.err = "DatabaseError"
                          /\ requirements' = requirements
                          /\ requirement_designs' = requirement_designs
                          /\ req_read(rid)' = req_read(rid)
                 /\ ~HasDuplicates(ls)
                       => /\ last'.err = "ok"
                          /\ { x \in requirement_designs' : x[1] = rid } = LinkRows(rid, ls)
                          /\ requirements'[rid].title = title]_vars

\* an update of REQ-001 that named design 1 twice failed at a later time than the one
\* REQ-001 was last written at; REQ-001 still has title A and its links to 1 and 2
C23_Witness ==
    /\ last.op = "store_update" /\ last.err = "DatabaseError"
    /\ REQ_001 \in DOMAIN requirements
    /\ requirements[REQ_001].title = TitleA
    /\ requirements[REQ_001].updated_at[2] < clock
    /\ req_read(REQ_001).design_ids = <<1, 2>>
    /\ REQ_002 \in DOMAIN requirements
    /\ requirements[REQ_002].title = TitleB

---------------------------------------------------------------------------
(* The store updates' return value and frame, checked under Spec *)

\* C24: a Requirement Store update(entity) that raises nothing returns true exactly
\* when a requirement row with entity.id exists (and so was rewritten), whatever join
\* rows the id had before and whatever list the entity carries; false when no such
\* row exists.
C24_UpdateReturn ==
    [][\A rid \in LinkReqIds, ls \in ReqLinks1 :
          (/\ last'.op = "store_update" /\ last'.err = "ok"
           /\ StoreUpdate(rid, TitleA, ls))
              => last'.ret = (rid \in DOMAIN requirements)]_vars

\* C28: a store update of an id that has no entity row changes nothing: after a
\* Requirement Store update of an absent requirement id, or a Design Store update of an
\* absent design id, with any link list, every table is as it was.
C28_UpdateAbsentFrame ==
    [][/\ \A rid \in LinkReqIds, ls \in ReqLinks1 :
             (/\ last'.op = "store_update"
              /\ rid \notin DOMAIN requirements
              /\ StoreUpdate(rid, TitleA, ls))
                 => UNCHANGED tables
       /\ \A did \in DesignIds, ls \in DesignLinks1 :
             (/\ last'.op = "design_update"
              /\ did \notin DOMAIN designs
              /\ DesignUpdate(did, TitleA, ls))
                 => UNCHANGED tables]_vars

---------------------------------------------------------------------------
(* Id allocation past REQ-999, checked under SpecIds *)

\* C26: in a state where every stored id is REQ- followed by three or more digits, a
\* Manager create with no supplied id succeeds under an id that was not stored and
\* whose number is greater than that of every stored id; also when REQ-999 or
\* REQ-1000 is stored.
C26_NoCollision ==
    [][\A data \in AutoData :
          (/\ last'.op = "mgr_create"
           /\ \A m \in DOMAIN requirements : IdPattern(m)
           /\ MgrCreate(data, clock, clock))
              => /\ last'.err = "ok"
                 /\ last'.rid \notin DOMAIN requirements
                 /\ \A m \in DOMAIN requirements :
                       ParseInt(Suffix(m)) < ParseInt(Suffix(last'.rid))]_vars

(***************************************************************************)
(* SpecDialog: Manager creates and updates with the data the requirement   *)
(* dialog supplies, which has a design_ids entry.                          *)
(***************************************************************************)

\* RequirementDialog.get_data with the id input left empty
DialogData(title, design_ids) ==
    [title |-> title, description |-> <<>>, status |-> "Draft", priority |-> "Medium",
     category |-> <<>>, verification_criteria |-> <<>>, design_ids |-> design_ids]

DialogLinks == { <<>>, <<1>>, <<1, 2>> }

NextDialog ==
    \/ \E title \in {TitleA, TitleB}, ls \in DialogLinks :
          MgrCreate(DialogData(title, ls), clock, clock)
    \/ \E rid \in DOMAIN requirements, title \in {TitleA, TitleB}, ls \in DialogLinks :
          MgrUpdate(rid, DialogData(title, ls), clock, clock)
    \/ DesignCreate(TitleA, <<>>)
    \/ Tick

SpecDialog == Init /\ [][NextDialog]_vars

\* C27: after a Manager create(data) or update(id, data) that raises nothing and whose
\* data has a design_ids entry, read(id).design_ids equals, as a set, the supplied one.
C27_ManagerLinks ==
    [][\A rid \in FieldReqIds, title \in {TitleA, TitleB}, ls \in DialogLinks :
          /\ (/\ last'.op = "mgr_create" /\ last'.err = "ok" /\ last'.rid = rid
              /\ MgrCreate(DialogData(title, ls), clock, clock))
                 => Range(req_read(rid).design_ids)' = Range(ls)
          /\ (/\ last'.op = "mgr_update" /\ last'.err = "ok"
              /\ rid \in DOMAIN requirements
              /\ MgrUpdate(rid, DialogData(title, ls), clock, clock))
                 => Range(req_read(rid).design_ids)' = Range(ls)]_vars

(***************************************************************************)
(* SpecObservers: the Requirement controller with listeners of which one   *)
(* raises when it is called.                                               *)
(***************************************************************************)

ObserverListeners == {"a", Raising}

RequirementControllerOps == {"ctl_create", "ctl_update", "ctl_delete"}

NextObservers ==
    \/ \E o \in ObserverListeners : AddObserver(o)
    \/ \E data \in CtlCreateData : CtlCreate(data, clock, clock)
    \/ \E rid \in CtlReqIds, data \in CtlUpdateData : CtlUpdate(rid, data, clock, clock)
    \/ \E rid \in CtlReqIds : CtlDelete(rid)

SpecObservers == Init /\ [][NextObservers]_vars

\* C29: whenever a RequirementController create, update or delete returns
\* success = false, every table is as it was before the call, whatever listeners are
\* registered, one that raises when notified included.
C29_FailureLeavesStore ==
    [][(last'.op \in RequirementControllerOps /\ ~last'.success) => UNCHANGED tables]_vars

\* C30: a RequirementController create or update in which the Manager raised
\* (validation failure, unknown id, storage error), and a delete of an id that is not
\* stored, change no table and run no listener.
C30_NoNotifyOnFailure ==
    [][/\ (last'.op \in {"ctl_create", "ctl_update"} /\ last'.err # "ok")
             => (last'.notified = <<>> /\ ~last'.success /\ UNCHANGED tables)
       /\ \A rid \in CtlReqIds :
             (/\ last'.op = "ctl_delete"
              /\ rid \notin DOMAIN requirements
              /\ CtlDelete(rid))
                 => (last'.notified = <<>> /\ ~last'.success /\ UNCHANGED tables)]_vars

\* with two listeners registered and REQ-001 stored, a delete of an id that is not
\* stored returned 'not found' and ran no listener
C30_Witness ==
    /\ last.op = "ctl_delete" /\ ~last.success /\ last.message = "not found"
    /\ last.notified = <<>>
    /\ _observers = <<"a", Raising>>
    /\ DOMAIN requirements = {REQ_001}

(***************************************************************************)
(* SpecLostUpdate: two clients update REQ-001, the steps of their calls    *)
(* interleaved in every order, while time passes.                          *)
(***************************************************************************)

RaceUpdateData == { [title |-> TitleB], [status |-> "Approved"], [title |-> <<>>] }

NextLostUpdate ==
    \/ MgrCreate([id |-> REQ_001, title |-> TitleA], clock, clock)
    \/ \E c \in Clients, rid \in CtlReqIds, data \in RaceUpdateData :
          UpdateRead(c, rid, data, clock)
    \/ \E c \in Clients : UpdateWrite(c, clock)
    \/ Tick

SpecLostUpdate == Init /\ [][NextLostUpdate]_vars

\* C22: the write of a Manager update raises nothing and leaves the stored entity equal
\* to the entity this call merged from its own read, also when the other client has
\* written the same id since that read: the other client's changes are overwritten.
C22_LostUpdate ==
    [][\A c \in Clients :
          (/\ last'.op = "mgr_update" /\ last'.client = c
           /\ inflight[c].pc = "update"
           /\ UpdateWrite(c, clock))
              => LET requirement == inflight[c].requirement
                 IN  /\ last'.err = "ok"
                     /\ \E rid \in DOMAIN requirements' :
                           /\ rid = requirement.id
                           /\ req_read(rid)' = [requirement EXCEPT !.updated_at = clock]
                     /\ last'.stale = (req_read(requirement.id) # inflight[c].read)]_vars

\* both clients read REQ-001 with title A and status Draft; c1 wrote the title B, then
\* c2 wrote the status Approved: REQ-001 has title A again
C22_Witness ==
    /\ last.op = "mgr_update" /\ last.client = "c2" /\ last.err = "ok" /\ last.stale
    /\ last.rid = REQ_001
    /\ requirements[REQ_001].title = TitleA
    /\ requirements[REQ_001].status = "Approved"
    /\ inflight["c1"].pc = "idle"

(***************************************************************************)
(* SpecRace: two clients create Requirements with generated ids, the steps *)
(* of their calls interleaved in every order.                              *)
(***************************************************************************)

RaceCreateData == { [title |-> TitleA], [title |-> TitleB], [title |-> <<>>] }

NextRace ==
    \/ \E c \in Clients, data \in RaceCreateData : CreateAllocate(c, data, clock, clock)
    \/ \E c \in Clients : CreatePersist(c)

SpecRace == Init /\ [][NextRace]_vars

\* the generated ids of two creates in progress, neither of them stored, are the same
SameIdAllocated ==
    (/\ inflight["c1"].pc = "create" /\ inflight["c2"].pc = "create"
     /\ inflight["c1"].requirement.id \notin DOMAIN requirements
     /\ inflight["c2"].requirement.id \notin DOMAIN requirements)
        => inflight["c1"].requirement.id = inflight["c2"].requirement.id

\* C25: two Manager creates with no supplied id that both call get_next_id before
\* either persists obtain the same id; the one that persists first stores its row, and
\* the other fails with the storage error and leaves the row, and every table, as the
\* first one wrote it.
C25_AllocationRace ==
    [][/\ SameIdAllocated'
       /\ \A c \in Clients :
             (/\ last'.op = "mgr_create" /\ last'.client = c
              /\ inflight[c].pc = "create"
              /\ CreatePersist(c))
                 => LET requirement == inflight[c].requirement
                    IN  IF requirement.id \in DOMAIN requirements
                        THEN last'.err = "DatabaseError" /\ UNCHANGED tables
                        ELSE /\ last'.err = "ok"
                             /\ \E rid \in DOMAIN requirements' :
                                   /\ rid = requirement.id
                                   /\ req_read(rid)' = requirement]_vars

\* both clients were given REQ-001; c1 stored it with title A, and the create of c2,
\* with title B, failed
C25_Witness ==
    /\ last.op = "mgr_create" /\ last.client = "c2" /\ last.err = "DatabaseError"
    /\ last.rid = REQ_001 /\ last.stale
    /\ DOMAIN requirements = {REQ_001}
    /\ requirements[REQ_001].title = TitleA

====
